---- MODULE Spec2Model ----
(***************************************************************************)
(* Verification model of the IBM Cloud (SoftLayer) Packer builder:         *)
(* Builder.Prepare (configuration validation) and Builder.Run (step        *)
(* sequence selection, step runner, terminal-state inspection).            *)
(*                                                                         *)
(* Builder.Prepare and Builder.Run are translated from src/main.go.  The   *)
(* step runner and the concrete steps are not part of src/main.go; they    *)
(* are modelled from sections 4.2-4.7 of the specification.                *)
(***************************************************************************)
EXTENDS Integers, Sequences, FiniteSets, TLC

VARIABLES
    pc,         \* position of the caller: "new", "prepared", "running", "returned"
    config,     \* Builder.config
    retErr,     \* error returned by Prepare: sequence of violated rules
    client,     \* TRUE once Run has constructed the provider client
    steps,      \* the step sequence handed to the runner
    state,      \* the shared build state (multistep.BasicStateBag)
    rpc,        \* position of the runner: "idle", "loop", "step", "cleanup", "done"
    idx,        \* index of the step the runner is at
    ran,        \* indices of the steps whose Run was started, in order
    action,     \* per step index: "none", "running", "Continue", "Halt"
    cleaned,    \* indices of the steps whose Cleanup was invoked, in order
    cancelled,  \* the cancellation signal of the context handed to Run
    calls,      \* provider operations invoked so far, in order
    wait,       \* polling of the step that runs: polls made, time waited, last status
    hist,       \* history: observations used only to state properties
    result      \* what Builder.Run returned: [artifact, err]

vars == <<pc, config, retErr, client, steps, state, rpc, idx, ran, action,
          cleaned, cancelled, calls, wait, hist, result>>

\* ------------------------------------------------------------------ bounds
\* largest explicit sizing value (cpu count) a raw configuration may carry
MaxSizing == 1

\* --------------------------------------------------------------- constants
IMAGE_TYPE_STANDARD == "standard"

None == "<nil>"

\* ------------------------------------------------------------ configuration
\* The zero value of Config (new(ibmcloud.Builder)).
ZeroConfig ==
    [ Type |-> "", InstanceFlavor |-> "", InstanceCpu |-> 0,
      InstanceMemory |-> 0, InstanceDiskCapacity |-> 0,
      APIKey |-> "", Username |-> "", ImageName |-> "", ImageType |-> "",
      BaseImageId |-> "", BaseOsCode |-> "", DatacenterName |-> "",
      RawStateTimeout |-> "", StateTimeout |-> 0 ]

\* The raw configurations handed to Prepare.
RawConfigs ==
    [ Type : {"", "ssh", "winrm", "none", "telnet"},
      InstanceFlavor : {"", "B1_1X2X25"},
      InstanceCpu : (-1)..MaxSizing,
      InstanceMemory : {0, 1024},
      InstanceDiskCapacity : {0, 25},
      APIKey : {"", "key"},
      Username : {"", "user"},
      ImageName : {"", "img"},
      ImageType : {"", "standard", "flex"},
      BaseImageId : {"", "base-1"},
      BaseOsCode : {"", "UBUNTU_LATEST"},
      DatacenterName : {"", "dal13"},
      RawStateTimeout : {"", "10m", "0s", "-1s", "soon"},
      StateTimeout : {0} ]

\* time.ParseDuration on the raw timeouts above; durations in milliseconds.
ParseDuration(s) ==
    CASE s = "10m" -> [d |-> 600000, err |-> FALSE]
      [] s = "0s"  -> [d |-> 0, err |-> FALSE]
      [] s = "-1s" -> [d |-> -1000, err |-> FALSE]
      [] OTHER     -> [d |-> 0, err |-> TRUE]

\* communicator.Config.Prepare: an empty type becomes "ssh"; "ssh" and
\* "winrm" are validated (settingsOk says whether their settings are
\* valid); "none" needs no settings; any other type is invalid.
CommPrepare(type, settingsOk) ==
    LET t == IF type = "" THEN "ssh" ELSE type IN
    [ Type |-> t,
      errs |-> CASE t \in {"ssh", "winrm"} ->
                        IF settingsOk THEN <<>> ELSE <<"communicator">>
                 [] t = "none" -> <<>>
                 [] OTHER -> <<"communicator">> ]

\* Lines 103-130: default values.
Defaults(c) ==
    [c EXCEPT
        !.DatacenterName = IF @ = "" THEN "ams01" ELSE @,
        !.ImageType = IF @ = "" THEN IMAGE_TYPE_STANDARD ELSE @,
        !.RawStateTimeout = IF @ = "" THEN "10m" ELSE @]

byFlavor(c) ==
    ~(c.InstanceCpu > 0) /\ ~(c.InstanceMemory > 0)
        /\ ~(c.InstanceDiskCapacity > 0)

\* SizingErrs without the flavor/explicit-sizing conflict test.
SizingErrs_noConflict(c) ==
    IF byFlavor(c) /\ c.InstanceFlavor = "" THEN <<"flavor_required">>
    ELSE <<>>

SizingErrs(c) ==
    IF ~byFlavor(c) /\ c.InstanceFlavor # "" THEN <<"sizing_conflict">>
    ELSE IF byFlavor(c) /\ c.InstanceFlavor = "" THEN <<"flavor_required">>
    ELSE <<>>

BaseImageErrs(c) ==
    (IF c.BaseImageId = "" /\ c.BaseOsCode = "" THEN <<"base_required">> ELSE <<>>)
    \o (IF c.BaseImageId # "" /\ c.BaseOsCode # "" THEN <<"base_conflict">> ELSE <<>>)

\* Validate stopping at the first violated rule.
Validate_failFast(c, commErrs) ==
    LET all == commErrs
               \o SizingErrs(c)
               \o (IF c.APIKey = "" THEN <<"api_key">> ELSE <<>>)
               \o (IF c.Username = "" THEN <<"username">> ELSE <<>>)
               \o (IF c.ImageName = "" THEN <<"image_name">> ELSE <<>>)
               \o (IF c.ImageType # IMAGE_TYPE_STANDARD THEN <<"image_type">> ELSE <<>>)
               \o BaseImageErrs(c)
               \o (IF ParseDuration(c.RawStateTimeout).err
                     THEN <<"state_timeout">> ELSE <<>>)
    IN IF all = <<>> THEN <<>> ELSE <<all[1]>>

\* Lines 142-201: the errors appended to the MultiError, in order.
Validate(c, commErrs) ==
    commErrs
    \o SizingErrs(c)
    \o (IF c.APIKey = "" THEN <<"api_key">> ELSE <<>>)
    \o (IF c.Username = "" THEN <<"username">> ELSE <<>>)
    \o (IF c.ImageName = "" THEN <<"image_name">> ELSE <<>>)
    \o (IF c.ImageType # IMAGE_TYPE_STANDARD THEN <<"image_type">> ELSE <<>>)
    \o BaseImageErrs(c)
    \o (IF ParseDuration(c.RawStateTimeout).err THEN <<"state_timeout">> ELSE <<>>)

\* ------------------------------------------------------------- shared state
GetOk(bag, k) == k \in DOMAIN bag

Put(bag, k, v) ==
    [x \in (DOMAIN bag) \cup {k} |-> IF x = k THEN v ELSE bag[x]]

EmptyBag == [x \in {} |-> None]

\* ------------------------------------------------------ sequence selection
sshSteps_waitFirst ==
    <<"CreateSshKey", "WaitForInstance", "CreateInstance", "GrabPublicIP",
      "Connect", "Provision", "CaptureImage">>

sshSteps_keyAfterCreate ==
    <<"CreateInstance", "CreateSshKey", "WaitForInstance", "GrabPublicIP",
      "Connect", "Provision", "CaptureImage">>

\* Lines 245-259: the steps of the key-based ("ssh") path.
sshSteps ==
    <<"CreateSshKey", "CreateInstance", "WaitForInstance", "GrabPublicIP",
      "Connect", "Provision", "CaptureImage">>

winrmSteps_createTwice ==
    <<"CreateInstance", "WaitForInstance", "GrabPublicIP", "Connect",
      "CreateInstance", "Provision", "CaptureImage">>

winrmSteps_singleWait ==
    <<"CreateInstance", "WaitForInstance", "GrabPublicIP", "Connect",
      "Provision", "CaptureImage">>

\* Lines 231-243: the steps of the password-based ("winrm") path.
winrmSteps ==
    <<"CreateInstance", "WaitForInstance", "GrabPublicIP", "Connect",
      "WaitForInstance", "Provision", "CaptureImage">>

\* Lines 229-260: steps stays empty for any other communicator type.
SelectSteps(type) ==
    IF type = "winrm" THEN winrmSteps
    ELSE IF type = "ssh" THEN sshSteps
    ELSE <<>>

\* ---------------------------------------------------------------- artifact
NilArtifact ==
    [nil |-> TRUE, imageName |-> "", imageId |-> "", datacenterName |-> ""]

\* RunResult with the image_id test placed before the error test.
RunResult_imageFirst(bag, c) ==
    IF ~GetOk(bag, "image_id")
      THEN [artifact |-> NilArtifact, err |-> None]
    ELSE IF GetOk(bag, "error")
      THEN [artifact |-> NilArtifact, err |-> bag["error"]]
    ELSE [artifact |-> [nil |-> FALSE, imageName |-> c.ImageName,
                        imageId |-> bag["image_id"],
                        datacenterName |-> c.DatacenterName],
          err |-> None]

\* RunResult dropping the error found in the state.
RunResult_swallowError(bag, c) ==
    IF GetOk(bag, "error") \/ ~GetOk(bag, "image_id")
      THEN [artifact |-> NilArtifact, err |-> None]
    ELSE [artifact |-> [nil |-> FALSE, imageName |-> c.ImageName,
                        imageId |-> bag["image_id"],
                        datacenterName |-> c.DatacenterName],
          err |-> None]

\* RunResult without the image_id test.
RunResult_noImageTest(bag, c) ==
    IF GetOk(bag, "error")
      THEN [artifact |-> NilArtifact, err |-> bag["error"]]
    ELSE [artifact |-> [nil |-> FALSE, imageName |-> c.ImageName,
                        imageId |-> IF GetOk(bag, "image_id")
                                      THEN bag["image_id"] ELSE "",
                        datacenterName |-> c.DatacenterName],
          err |-> None]

\* Lines 266-285: what Run returns, read from the state after the runner.
RunResult(bag, c) ==
    IF GetOk(bag, "error")
      THEN [artifact |-> NilArtifact, err |-> bag["error"]]
    ELSE IF ~GetOk(bag, "image_id")
      THEN [artifact |-> NilArtifact, err |-> None]
    ELSE [artifact |-> [nil |-> FALSE, imageName |-> c.ImageName,
                        imageId |-> bag["image_id"],
                        datacenterName |-> c.DatacenterName],
          err |-> None]

\* Line 264: the context handed to the runner is the one handed to Run.
ctxErr_background == FALSE

ctxErr == cancelled

\* Run going on as soon as the runner stopped advancing.
RunnerReturned_beforeCleanup == rpc \in {"cleanup", "done"}

\* The runner started without waiting for it.
RunnerReturned_async == rpc # "idle"

\* Line 264: runner.Run is a blocking call; Run goes on once it returned.
RunnerReturned == rpc = "done"

\* The ids the provider may give a captured image.
ImageIds == {"image-7", "image-8"}

\* -------------------------------------------------------------------- steps
\* A failing step that writes "error" but lets the runner go on.
Fail_continue(bag, e, call) ==
    [act |-> "Continue", bag |-> Put(bag, "error", e), call |-> call]

\* A step's Run that fails writes "error" and signals Halt.
Fail(bag, e, call) ==
    [act |-> "Halt", bag |-> Put(bag, "error", e), call |-> call]

Continue(bag, call) == [act |-> "Continue", bag |-> bag, call |-> call]

\* The fixed interval between two polls of the instance status, in
\* milliseconds.
PollInterval == 250000

\* No poll made yet.
NoWait == [polls |-> 0, waited |-> 0, last |-> "none"]

\* Waiting for one more interval would exceed the state-transition timeout.
TimedOut_never == FALSE

TimedOut == wait.waited + PollInterval > config.StateTimeout

\* The outcomes of the Run of step name on the shared state bag: the
\* action signalled, the state bag it leaves and the provider operation it
\* called.  canc: the cancellation signal is raised while the step runs.
StepRun(name, bag, canc) ==
    CASE name = "CreateSshKey" ->
           { Continue(Put(bag, "ssh_private_key", "temporary-key"), <<>>),
             Fail(bag, "KeyError", <<>>) }
      [] name = "CreateInstance" ->
           { Continue(Put(bag, "instance_id", "instance-1"), <<"CreateInstance">>),
             Fail(bag, "CreateInstanceError", <<"CreateInstance">>) }
      [] name = "WaitForInstance" ->
           IF wait.last = "Active" THEN { Continue(bag, <<>>) }
           ELSE IF wait.last = "Failed"
             THEN { Fail(bag, "InstanceFailedError", <<>>) }
           ELSE IF wait.last = "Pending" /\ TimedOut
             THEN { Fail(bag, "StateTimeoutError", <<>>) }
           ELSE {}
      [] name = "GrabPublicIP" ->
           { Continue(Put(bag, "public_ip", "198.51.100.7"), <<>>),
             Fail(bag, "NoAddressError", <<>>) }
      [] name \in {"Connect", "Provision"} ->
           { Continue(bag, <<>>), Fail(bag, name \o "Error", <<>>) }
           \cup (IF canc THEN {[act |-> "Halt", bag |-> bag, call |-> <<>>]}
                 ELSE {})
      [] name = "CaptureImage" ->
           { Continue(Put(bag, "image_id", id), <<"CaptureImage">>) : id \in ImageIds }
           \cup { Fail(bag, "CaptureImageError", <<"CaptureImage">>) }

\* StepCleanup writing a failed cleanup into the shared state.
StepCleanup_escalate(name, bag) ==
    IF name = "CreateInstance" /\ GetOk(bag, "instance_id")
          /\ ~GetOk(bag, "image_id")
      THEN { [bag |-> bag, call |-> <<"DeleteInstance">>, failed |-> FALSE],
             [bag |-> Put(bag, "error", "CleanupError"),
              call |-> <<"DeleteInstance">>, failed |-> TRUE] }
    ELSE IF name = "CreateSshKey" /\ GetOk(bag, "ssh_private_key")
      THEN { [bag |-> bag, call |-> <<>>, failed |-> FALSE],
             [bag |-> Put(bag, "error", "CleanupError"),
              call |-> <<>>, failed |-> TRUE] }
    ELSE { [bag |-> bag, call |-> <<>>, failed |-> FALSE] }

\* StepCleanup deleting the instance whether or not one was created.
StepCleanup_alwaysDelete(name, bag) ==
    IF name = "CreateInstance" /\ ~GetOk(bag, "image_id")
      THEN { [bag |-> bag, call |-> <<"DeleteInstance">>, failed |-> FALSE],
             [bag |-> bag, call |-> <<"DeleteInstance">>, failed |-> TRUE] }
    ELSE IF name = "CreateSshKey" /\ GetOk(bag, "ssh_private_key")
      THEN { [bag |-> bag, call |-> <<>>, failed |-> FALSE],
             [bag |-> bag, call |-> <<>>, failed |-> TRUE] }
    ELSE { [bag |-> bag, call |-> <<>>, failed |-> FALSE] }

\* The outcomes of the Cleanup of step name: CreateInstance deletes the
\* instance it created when the run did not succeed, CreateSshKey discards
\* the temporary key it set; either may fail, which is logged only.  A step
\* whose key was never set, and any other step, has nothing to undo.
StepCleanup(name, bag) ==
    IF name = "CreateInstance" /\ GetOk(bag, "instance_id")
          /\ ~GetOk(bag, "image_id")
      THEN { [bag |-> bag, call |-> <<"DeleteInstance">>, failed |-> FALSE],
             [bag |-> bag, call |-> <<"DeleteInstance">>, failed |-> TRUE] }
    ELSE IF name = "CreateSshKey" /\ GetOk(bag, "ssh_private_key")
      THEN { [bag |-> bag, call |-> <<>>, failed |-> FALSE],
             [bag |-> bag, call |-> <<>>, failed |-> TRUE] }
    ELSE { [bag |-> bag, call |-> <<>>, failed |-> FALSE] }

\* ------------------------------------------------------------------- Init
Init ==
    /\ pc = "new"
    /\ config = ZeroConfig
    /\ retErr = <<>>
    /\ client = FALSE
    /\ steps = <<>>
    /\ state = EmptyBag
    /\ rpc = "idle"
    /\ idx = 0
    /\ ran = <<>>
    /\ action = <<>>
    /\ cleaned = <<>>
    /\ cancelled = FALSE
    /\ calls = <<>>
    /\ wait = NoWait
    /\ hist = [firstError |-> None, capturedId |-> None, cancelAfter |-> -1,
               commErrs |-> <<>>, cleanupFailed |-> {}]
    /\ result = [artifact |-> NilArtifact, err |-> None]

\* Builder.Prepare(raws): decode, default, validate.
Prepare(raw, decodeOk, settingsOk) ==
    /\ pc = "new"
    /\ pc' = "prepared"
    /\ IF ~decodeOk
         THEN /\ retErr' = <<"decode">>
              /\ config' = config
              /\ hist' = hist
         ELSE LET c1 == Defaults(raw)
                  cp == CommPrepare(c1.Type, settingsOk)
                  c2 == [c1 EXCEPT !.Type = cp.Type]
              IN /\ retErr' = Validate(c2, cp.errs)
                 /\ config' = [c2 EXCEPT !.StateTimeout =
                                    ParseDuration(c2.RawStateTimeout).d]
                 /\ hist' = [hist EXCEPT !.commErrs = cp.errs]
    /\ UNCHANGED <<client, steps, state, rpc, idx, ran, action, cleaned,
                   cancelled, calls, wait, result>>

\* The caller hands a raw configuration to a new builder.
PrepareCall ==
    /\ pc = "new"
    /\ \E raw \in RawConfigs, d \in BOOLEAN, s \in BOOLEAN : Prepare(raw, d, s)

\* Packer calls Run only on a builder whose Prepare returned no error.
\* Lines 216-264: construct the client and the state bag, select the steps
\* and start the runner on them.
Run ==
    /\ pc = "prepared"
    /\ retErr = <<>>
    /\ pc' = "running"
    /\ client' = TRUE
    /\ state' = Put(Put(Put(Put(EmptyBag, "config", "config"),
                            "client", "client"), "hook", "hook"), "ui", "ui")
    /\ steps' = SelectSteps(config.Type)
    /\ action' = [i \in 1..Len(SelectSteps(config.Type)) |-> "none"]
    /\ rpc' = "loop"
    /\ idx' = 1
    /\ UNCHANGED <<config, retErr, ran, cleaned, cancelled, calls, wait, hist, result>>

\* The context handed to Run is cancelled by the caller.
Cancel ==
    /\ pc \in {"prepared", "running"}
    /\ ~cancelled
    /\ cancelled' = TRUE
    /\ hist' = [hist EXCEPT !.cancelAfter =
                    IF rpc = "loop" THEN Len(ran) ELSE -1]
    /\ UNCHANGED <<pc, config, retErr, client, steps, state, rpc, idx, ran,
                   action, cleaned, calls, wait, result>>

\* Runner, step 2: a raised cancellation signal stops the advance.
RunnerCancelled ==
    /\ rpc = "loop"
    /\ idx <= Len(steps)
    /\ ctxErr
    /\ rpc' = "cleanup"
    /\ UNCHANGED <<pc, config, retErr, client, steps, state, idx, ran, action,
                   cleaned, cancelled, calls, wait, hist, result>>

\* Runner, step 2: otherwise the step is appended to "ran" and its Run begins.
RunnerStartStep ==
    /\ rpc = "loop"
    /\ idx <= Len(steps)
    /\ ~ctxErr
    /\ ran' = Append(ran, idx)
    /\ action' = [action EXCEPT ![idx] = "running"]
    /\ rpc' = "step"
    /\ wait' = NoWait
    /\ UNCHANGED <<pc, config, retErr, client, steps, state, idx, cleaned,
                   cancelled, calls, hist, result>>

\* WaitForInstance polls the instance status: first at once, then again
\* after each interval for as long as the interval fits in the timeout.
WaitPoll ==
    /\ rpc = "step"
    /\ steps[idx] = "WaitForInstance"
    /\ \/ wait.last = "none"
       \/ wait.last = "Pending" /\ ~TimedOut
    /\ \E s \in {"Pending", "Active", "Failed"} :
          wait' = [polls |-> wait.polls + 1,
                   waited |-> IF wait.last = "Pending"
                                THEN wait.waited + PollInterval
                                ELSE wait.waited,
                   last |-> s]
    /\ UNCHANGED <<pc, config, retErr, client, steps, state, rpc, idx, ran,
                   action, cleaned, cancelled, calls, hist, result>>

\* Runner, step 3: the Run of the current step returns; Halt stops the advance.
StepReturn ==
    /\ rpc = "step"
    /\ \E o \in StepRun(steps[idx], state, ctxErr) :
         /\ state' = o.bag
         /\ calls' = calls \o o.call
         /\ action' = [action EXCEPT ![idx] = o.act]
         /\ hist' = [hist EXCEPT
                 !.firstError = IF @ = None /\ GetOk(o.bag, "error")
                                  THEN o.bag["error"] ELSE @,
                 !.capturedId = IF steps[idx] = "CaptureImage" /\ o.act = "Continue"
                                  THEN o.bag["image_id"] ELSE @]
         /\ IF o.act = "Halt"
              THEN rpc' = "cleanup" /\ idx' = idx
              ELSE rpc' = "loop" /\ idx' = idx + 1
    /\ UNCHANGED <<pc, config, retErr, client, steps, ran, cleaned, cancelled, wait,
                   result>>

\* Runner: the sequence is completed.
RunnerLoopEnd ==
    /\ rpc = "loop"
    /\ idx > Len(steps)
    /\ rpc' = "cleanup"
    /\ UNCHANGED <<pc, config, retErr, client, steps, state, idx, ran, action,
                   cleaned, cancelled, calls, wait, hist, result>>

\* Runner, step 4: Cleanup of the steps in "ran", last one first.
RunnerCleanup ==
    /\ rpc = "cleanup"
    /\ Len(cleaned) < Len(ran)
    /\ LET i == ran[Len(ran) - Len(cleaned)]
       IN \E o \in StepCleanup(steps[i], state) :
            /\ cleaned' = Append(cleaned, i)
            /\ state' = o.bag
            /\ calls' = calls \o o.call
            /\ hist' = [hist EXCEPT !.cleanupFailed =
                            IF o.failed THEN @ \cup {i} ELSE @]
    /\ UNCHANGED <<pc, config, retErr, client, steps, rpc, idx, ran, action,
                   cancelled, wait, result>>

\* Runner: the cleanup pass is over, control returns to Run.
RunnerDone ==
    /\ rpc = "cleanup"
    /\ Len(cleaned) = Len(ran)
    /\ rpc' = "done"
    /\ UNCHANGED <<pc, config, retErr, client, steps, state, idx, ran, action,
                   cleaned, cancelled, calls, wait, hist, result>>

\* Lines 266-285: Run inspects the state and returns.
RunReturn ==
    /\ pc = "running"
    /\ RunnerReturned
    /\ pc' = "returned"
    /\ result' = RunResult(state, config)
    /\ UNCHANGED <<config, retErr, client, steps, state, rpc, idx, ran, action,
                   cleaned, cancelled, calls, wait, hist>>

Next ==
    \/ PrepareCall
    \/ Run
    \/ Cancel
    \/ RunnerCancelled
    \/ RunnerStartStep
    \/ WaitPoll
    \/ StepReturn
    \/ RunnerLoopEnd
    \/ RunnerCleanup
    \/ RunnerDone
    \/ RunReturn

Spec == Init /\ [][Next]_vars

\* A step that is running goes on running: its polls are made and its Run
\* returns when it can.
LiveSpec == Spec /\ WF_vars(WaitPoll) /\ WF_vars(StepReturn)
\* ------------------------------------------------------------- properties
Reverse(q) == [k \in 1..Len(q) |-> q[Len(q) + 1 - k]]

Range(q) == {q[k] : k \in 1..Len(q)}

RunnerStarted == rpc # "idle"

\* Every step started so far is the next one of the sequence, and began
\* only after the step before it returned Continue.
InOrder ==
    /\ \A k \in 1..Len(ran) : ran[k] = k
    /\ \A k \in 2..Len(ran) : action[k - 1] = "Continue"

\* C1: with communicator type "ssh" the runner is handed exactly
\* CreateSshKey, CreateInstance, WaitForInstance, GrabPublicIP, Connect,
\* Provision, CaptureImage, and no step's Run begins before the Run of the
\* step before it returned Continue.
C1_SshSequence ==
    (RunnerStarted /\ config.Type = "ssh") =>
        /\ steps = <<"CreateSshKey", "CreateInstance", "WaitForInstance",
                     "GrabPublicIP", "Connect", "Provision", "CaptureImage">>
        /\ InOrder

C1_Witness ==
    /\ pc = "returned"
    /\ config.Type = "ssh"
    /\ Len(ran) = 7
    /\ action[7] = "Continue"

\* C2: with communicator type "winrm" the runner is handed exactly
\* CreateInstance, WaitForInstance, GrabPublicIP, Connect, WaitForInstance,
\* Provision, CaptureImage: WaitForInstance runs once before and once after
\* Connect (and before Provision), no temporary-key step runs, and the steps
\* run in this order.
C2_WinrmSequence ==
    (RunnerStarted /\ config.Type = "winrm") =>
        /\ steps = <<"CreateInstance", "WaitForInstance", "GrabPublicIP",
                     "Connect", "WaitForInstance", "Provision", "CaptureImage">>
        /\ \A k \in Range(ran) : steps[k] # "CreateSshKey"
        /\ InOrder

C2_Witness ==
    /\ pc = "returned"
    /\ config.Type = "winrm"
    /\ Len(ran) = 7
    /\ action[5] = "Continue"
    /\ action[7] = "Continue"

\* C3 (as claimed): a communicator type other than "ssh" and "winrm" makes
\* Prepare return an error, and the runner is only ever started with the
\* non-empty sequence selected for "ssh" or "winrm".
C3_UnsupportedTypeRejected ==
    /\ (pc # "new" /\ config.Type \notin {"ssh", "winrm"}) => retErr # <<>>
    /\ RunnerStarted =>
          (config.Type \in {"ssh", "winrm"} /\ steps # <<>>)

\* C4: when a step's Run signalled Halt, then by the time Run has returned
\* the Cleanup of every earlier step was invoked exactly once, in reverse
\* order of the steps' Run, and the runner's cleanup pass was over when Run
\* read the terminal state.
C4_HaltCleanup ==
    pc = "returned" =>
        /\ rpc = "done"
        /\ Len(cleaned) = Len(ran)
        /\ \A i \in 1..Len(steps) : action[i] = "Halt" =>
              /\ \A j \in 1..(i - 1) :
                    Cardinality({p \in 1..Len(cleaned) : cleaned[p] = j}) = 1
              /\ \A p, q \in 1..Len(cleaned) :
                    (p < q /\ cleaned[p] < i /\ cleaned[q] < i)
                        => cleaned[p] > cleaned[q]

C4_Witness ==
    /\ pc = "returned"
    /\ Len(steps) = 7
    /\ action[4] = "Halt"
    /\ cleaned = <<4, 3, 2, 1>>

\* C5: once "error" is in the shared state no step's Run is started any
\* more; only Cleanup of steps that already ran is executed.
C5_NoRunAfterError ==
    [][GetOk(state, "error") =>
          /\ ran' = ran
          /\ Range(cleaned') \subseteq Range(ran)]_vars

C5_Witness ==
    /\ GetOk(state, "error")
    /\ Len(ran) = 3
    /\ Len(cleaned) = 3

\* C6: a cancellation raised after the Run of step k returned and before the
\* Run of step k+1 began: no later step's Run is ever started, and when Run
\* returns every step that ran has had its Cleanup, the created instance
\* being deleted by the Cleanup of CreateInstance.
C6_CancelBetweenSteps ==
    (hist.cancelAfter >= 1 /\ hist.cancelAfter < Len(steps)) =>
        /\ Len(ran) = hist.cancelAfter
        /\ pc = "returned" =>
              /\ cleaned = Reverse(ran)
              /\ (\E k \in Range(ran) : steps[k] = "CreateInstance")
                    => "DeleteInstance" \in Range(calls)

C6_Witness ==
    /\ pc = "returned"
    /\ hist.cancelAfter >= 1
    /\ steps[hist.cancelAfter] = "CreateInstance"
    /\ steps[hist.cancelAfter + 1] = "WaitForInstance"
    /\ action[hist.cancelAfter + 1] = "none"
    /\ "DeleteInstance" \in Range(calls)

\* C7: when the state holds "error" after the runner, Run returns that
\* error and no artifact, and the error is the one the first failing step
\* wrote.
C7_ErrorReturned ==
    (pc = "returned" /\ GetOk(state, "error")) =>
        /\ result.err = state["error"]
        /\ result.err = hist.firstError
        /\ result.artifact.nil

C7_Witness ==
    /\ pc = "returned"
    /\ GetOk(state, "error")
    /\ result.err = "StateTimeoutError"

\* C8 (as claimed): Run never returns a result that carries neither an
\* artifact nor an error.
C8_NeverEmptyResult ==
    pc = "returned" => (~result.artifact.nil \/ result.err # None)

\* C9: Run returns an Artifact exactly when the state holds no "error" and
\* holds an "image_id"; its image name is the configured image_name, its
\* image id the one CaptureImage wrote, its datacenter the configured
\* datacenter_name.
C9_ArtifactIff ==
    pc = "returned" =>
        /\ ~result.artifact.nil <=>
              (~GetOk(state, "error") /\ GetOk(state, "image_id"))
        /\ ~result.artifact.nil =>
              /\ result.artifact.imageName = config.ImageName
              /\ result.artifact.imageId = hist.capturedId
              /\ result.artifact.imageId \in ImageIds
              /\ result.artifact.datacenterName = config.DatacenterName

C9_Witness ==
    /\ pc = "returned"
    /\ ~result.artifact.nil
    /\ result.artifact.imageId = "image-8"
    /\ result.artifact.datacenterName = "dal13"

\* Explicit sizing is one of cpu, memory, disk capacity given (positive).
ExplicitSizing(c) ==
    c.InstanceCpu > 0 \/ c.InstanceMemory > 0 \/ c.InstanceDiskCapacity > 0

ViolatesExclusivity(c) ==
    \/ c.InstanceFlavor # "" /\ ExplicitSizing(c)
    \/ c.InstanceFlavor = "" /\ ~ExplicitSizing(c)
    \/ c.BaseImageId # "" /\ c.BaseOsCode # ""
    \/ c.BaseImageId = "" /\ c.BaseOsCode = ""

\* C10: a configuration with both a flavor and explicit sizing, or both
\* base-image selectors (or neither of a pair), makes Prepare return an
\* error; Prepare constructs no provider client and calls no provider
\* operation.
C10_ExclusivityRejected ==
    /\ (pc # "new" /\ ViolatesExclusivity(config)) =>
          (retErr # <<>> /\ ~client /\ calls = <<>>)
    /\ pc = "prepared" => (~client /\ calls = <<>>)

C10_Witness ==
    /\ pc = "prepared"
    /\ config.InstanceFlavor # ""
    /\ config.InstanceCpu > 0
    /\ config.BaseImageId # ""
    /\ config.BaseOsCode = ""
    /\ retErr = <<"sizing_conflict">>
\* C11 (as claimed): after a Prepare that returned no error, exactly one of
\* flavor and explicit sizing is set, exactly one of base_image_id and
\* base_os_code is set, and StateTimeout is strictly positive.
C11_PreparedConfigValid ==
    (pc # "new" /\ retErr = <<>>) =>
        /\ (config.InstanceFlavor # "") # ExplicitSizing(config)
        /\ (config.BaseImageId # "") # (config.BaseOsCode # "")
        /\ config.StateTimeout > 0

\* The validation rules a prepared configuration violates.
ViolatedRules(c) ==
    {r \in {"sizing", "api_key", "username", "image_name", "image_type",
            "base_image", "state_timeout"} :
        CASE r = "sizing" -> (c.InstanceFlavor # "") = ExplicitSizing(c)
          [] r = "api_key" -> c.APIKey = ""
          [] r = "username" -> c.Username = ""
          [] r = "image_name" -> c.ImageName = ""
          [] r = "image_type" -> c.ImageType # "standard"
          [] r = "base_image" -> (c.BaseImageId # "") = (c.BaseOsCode # "")
          [] r = "state_timeout" -> c.RawStateTimeout \notin {"10m", "0s", "-1s"}}

\* The entries of the error report that name a rule.
RuleEntries(r) ==
    CASE r = "sizing" -> {"sizing_conflict", "flavor_required"}
      [] r = "base_image" -> {"base_required", "base_conflict"}
      [] OTHER -> {r}

Count(q, x) == Cardinality({k \in 1..Len(q) : q[k] = x})

\* The step whose Run was started last.
LastRan == ran[Len(ran)]

\* C13: CaptureImage's Run starts only after every step before it ran and
\* returned Continue; a build whose CreateInstance failed returns that
\* error and no artifact, and never calls the provider's CaptureImage.
C13_CaptureOnlyAfterAll ==
    /\ \A i \in 1..Len(steps) :
          (steps[i] = "CaptureImage" /\ action[i] # "none") =>
              \A j \in 1..(i - 1) : j \in Range(ran) /\ action[j] = "Continue"
    /\ (\E i \in 1..Len(steps) : steps[i] = "CreateInstance" /\ action[i] = "Halt") =>
          /\ Count(calls, "CaptureImage") = 0
          /\ pc = "returned" =>
                (result.artifact.nil /\ result.err = "CreateInstanceError")

C13_Witness ==
    /\ pc = "returned"
    /\ result.err = "CreateInstanceError"
    /\ Count(calls, "CreateInstance") = 1
    /\ Count(calls, "CaptureImage") = 0

\* C15: in every build the provider's CreateInstance and CaptureImage are
\* each called at most once, exactly once when an Artifact is returned; a
\* failed create or capture is not retried and is the error Run returns.
C15_CreateCaptureOnce ==
    /\ Count(calls, "CreateInstance") <= 1
    /\ Count(calls, "CaptureImage") <= 1
    /\ pc = "returned" =>
          /\ ~result.artifact.nil =>
                /\ Count(calls, "CreateInstance") = 1
                /\ Count(calls, "CaptureImage") = 1
          /\ \A i \in 1..Len(steps) :
                (steps[i] \in {"CreateInstance", "CaptureImage"}
                    /\ action[i] = "Halt")
                  => result.err = steps[i] \o "Error"

C15_Witness ==
    /\ pc = "returned"
    /\ result.err = "CaptureImageError"
    /\ Count(calls, "CreateInstance") = 1
    /\ Count(calls, "CaptureImage") = 1

\* C16: at most one step is executing, and a step's precondition is in the
\* state when its Run begins: "instance_id" for WaitForInstance,
\* GrabPublicIP and CaptureImage, "public_ip" for Connect, and on the
\* key-based path "ssh_private_key" for CreateInstance and Connect.
C16_SequentialPreconditions ==
    /\ Cardinality({i \in 1..Len(steps) : action[i] = "running"}) <= 1
    /\ \A i \in 1..Len(steps) : action[i] = "running" =>
          /\ rpc = "step" /\ idx = i
          /\ steps[i] \in {"WaitForInstance", "GrabPublicIP", "CaptureImage"}
                => GetOk(state, "instance_id")
          /\ steps[i] = "Connect" => GetOk(state, "public_ip")
          /\ (config.Type = "ssh" /\ steps[i] \in {"CreateInstance", "Connect"})
                => GetOk(state, "ssh_private_key")

C16_Witness ==
    /\ config.Type = "ssh"
    /\ rpc = "step"
    /\ steps[idx] = "Connect"
    /\ action[idx] = "running"
    /\ GetOk(state, "public_ip")

\* C17: a failed Cleanup does not change the outcome: Run still returns the
\* error the failing step wrote, a build that captured an image and wrote
\* no error still returns its Artifact, and the Cleanup of every other
\* step that ran is still invoked.
C17_CleanupFailureHarmless ==
    (pc = "returned" /\ hist.cleanupFailed # {}) =>
        /\ result.err = hist.firstError
        /\ (GetOk(state, "image_id") /\ hist.firstError = None)
              => ~result.artifact.nil
        /\ cleaned = Reverse(ran)

C17_Witness ==
    /\ pc = "returned"
    /\ Cardinality(hist.cleanupFailed) = 2
    /\ result.err = "NoAddressError"

C17_WitnessSuccess ==
    /\ pc = "returned"
    /\ hist.cleanupFailed # {}
    /\ ~result.artifact.nil

\* C18: a build that returns no artifact after CreateInstance wrote
\* "instance_id" has attempted the delete of that instance before Run
\* returned.
C18_InstanceDeleteAttempted ==
    (pc = "returned" /\ result.artifact.nil /\ GetOk(state, "instance_id")) =>
        Count(calls, "DeleteInstance") = 1

C18_Witness ==
    /\ pc = "returned"
    /\ cancelled
    /\ result.err = None
    /\ GetOk(state, "instance_id")
    /\ Count(calls, "DeleteInstance") = 1

\* The state key a step's Cleanup undoes.
CleanupKey(name) ==
    CASE name = "CreateInstance" -> "instance_id"
      [] name = "CreateSshKey" -> "ssh_private_key"
      [] OTHER -> "none"

\* C19: the Cleanup of a step whose state key was never set is a no-op: it
\* calls no provider operation (no delete for a CreateInstance that wrote
\* no "instance_id"), leaves the shared state unchanged and does not fail.
C19_CleanupNoop ==
    [][(cleaned' # cleaned
          /\ ~GetOk(state, CleanupKey(steps[ran[Len(ran) - Len(cleaned)]])))
        => /\ calls' = calls
           /\ state' = state
           /\ hist'.cleanupFailed = hist.cleanupFailed]_vars

C19_Witness ==
    /\ Len(steps) = 7
    /\ \E i \in Range(cleaned) : steps[i] = "CreateInstance"
    /\ ~GetOk(state, "instance_id")
    /\ Count(calls, "CreateInstance") = 1
    /\ Count(calls, "DeleteInstance") = 0
Waiting == rpc = "step" /\ steps[idx] = "WaitForInstance"

\* What holds of the polling of WaitForInstance in every state: the time
\* waited stays within the configured timeout, a Run that returned has
\* polled at least once, and one that returned while the status was still
\* Pending signalled Halt with the timeout error.
WaitSafe ==
    /\ wait.waited <= (IF config.StateTimeout > 0 THEN config.StateTimeout ELSE 0)
    /\ wait.polls <= 1 + wait.waited \div PollInterval
    /\ (ran # <<>> /\ steps[LastRan] = "WaitForInstance"
          /\ action[LastRan] \in {"Continue", "Halt"}) =>
          /\ wait.polls >= 1
          /\ wait.last = "Pending" =>
                /\ action[LastRan] = "Halt"
                /\ GetOk(state, "error")
                /\ state["error"] = "StateTimeoutError"

\* C14: WaitForInstance polls at least once whatever the timeout, its wait
\* is bounded by the configured timeout, a status that never becomes
\* Active ends in Halt with the timeout error, and its Run always returns.
C14_WaitTerminates ==
    /\ []WaitSafe
    /\ Waiting ~> ~Waiting

C14_Witness ==
    /\ pc = "returned"
    /\ ran # <<>>
    /\ steps[LastRan] = "WaitForInstance"
    /\ wait.polls = 3
    /\ wait.last = "Pending"
    /\ result.err = "StateTimeoutError"

C14_WitnessSmall ==
    /\ config.StateTimeout <= 0
    /\ ran # <<>>
    /\ steps[LastRan] = "WaitForInstance"
    /\ wait.polls = 1
    /\ wait.waited = 0
    /\ GetOk(state, "error")
    /\ state["error"] = "StateTimeoutError"
====
